---- MODULE Spec2Model ----
(***************************************************************************)
(* Model of the maze solver of src/niveau2.py (class MazeSolver): the      *)
(* discovered map, the BFS planner find_shortest_path, and the loop of     *)
(* solve_with_exploration with its two fallbacks _explore_adjacent and     *)
(* _backtrack.  The remote game service is the environment: it answers     *)
(* every discover and move call, either arbitrarily (Spec), with calls     *)
(* that fail or responses that lack a key (SpecFaulty), or from a hidden   *)
(* maze (SpecMaze, SpecCap, SpecScenario).  The registration workflow of   *)
(* src/niveau1.py (main and PertimmAPIClient) is modelled with a clock     *)
(* (SpecWorkflow).                                                         *)
(***************************************************************************)
EXTENDS Integers, Sequences, FiniteSets, TLC

VARIABLES
    position,           \* (position_x, position_y)
    discovered_map,     \* dict (x, y) -> MazeCell, a function on the known coordinates
    visited_positions,  \* set of move targets
    move_count,
    iteration,          \* local of solve_with_exploration
    cells,              \* local of solve_with_exploration: the last discover response
    path,               \* local of solve_with_exploration: the last planner result
    result,             \* the last move response
    last_call,          \* the last service call issued and whether it failed (history)
    pc,                 \* position of the control in solve_with_exploration
    outcome,            \* how solve_with_exploration returned
    maze,               \* the hidden maze of the service (NoMaze: arbitrary answers)
    url_move,           \* the endpoint handle of the move call
    url_discover,       \* the endpoint handle of the discover call
    issued,             \* service side: the number of the last pair of handles sent
    cap,                \* max_iterations of this run
    service,            \* how the service answers: "arbitrary", "faulty", "honest", "generous"
    start_position,     \* the position start_game answered (history)
    occupied,           \* the positions the agent has stood on (history)
    \* src/niveau1.py
    clock,              \* time.time(), in units of check_interval (half a second)
    main_pc,            \* position of the control in main
    token,              \* client.token
    start_time,         \* local of main: the clock read before create_application
    wait_start_time,    \* start_time of wait_for_completion
    status,             \* status of the last poll of wait_for_completion
    confirmation_url,   \* local of main
    created_at,         \* when the service created the application (history)
    completed_at,       \* when a poll was answered COMPLETED (history)
    confirmed_at,       \* when the confirmation request was sent (history)
    raised              \* the exception that ended main

solver_vars == <<position, discovered_map, visited_positions, move_count, iteration,
                 cells, path, result, last_call, pc, outcome, maze,
                 url_move, url_discover, issued, cap, service, start_position, occupied>>

workflow_vars == <<clock, main_pc, token, start_time, wait_start_time, status,
                   confirmation_url, created_at, completed_at, confirmed_at, raised>>

vars == <<solver_vars, workflow_vars>>

-----------------------------------------------------------------------------
(* Bounds of the model. *)

\* Coordinates of the service's answers are 0..MaxX by 0..MaxY.
MaxX == 1
MaxY == 1
\* The iteration cap of solve_with_exploration: max_iterations = 1000 in the source
\* (line 181), scaled down here so that the runs can be enumerated.
max_iterations == 3
\* Longest discover response of the arbitrary service.
MaxCells == 1
\* The hidden mazes of the honest service are 0..MazeMaxX by 0..MazeMaxY.
MazeMaxX == 1
MazeMaxY == 2
\* The maps given to the planner alone lie in 0..PlanMaxX by 0..PlanMaxY.
PlanMaxX == 1
PlanMaxY == 2
\* The merge alone: coordinates (0, 0..MergeMaxY), responses of at most MergeMaxCells cells.
MergeMaxY == 1
MergeMaxCells == 2
\* The iteration cap of the runs on the 3 by 3 grid (1000 in the source).
ScenarioCap == 6
\* The longest a request of the registration workflow takes to be answered, in
\* units of check_interval.
MaxDelay == 6

Grid == (0..MaxX) \X (0..MaxY)
MazeGrid == (0..MazeMaxX) \X (0..MazeMaxY)
PlanGrid == (0..PlanMaxX) \X (0..PlanMaxY)

-----------------------------------------------------------------------------
(* Cells and the discovered map. *)

CellValues == {"wall", "path", "trap", "home", "stop"}

\* dict.get(...) returning None
NoCell == [x |-> 0, y |-> 0, value |-> "none", movable |-> FALSE]

MazeCell(x, y, value, movable) == [x |-> x, y |-> y, value |-> value, movable |-> movable]

EmptyMap == [c \in {} |-> NoCell]

Get(m, c) == IF c \in DOMAIN m THEN m[c] ELSE NoCell

\* mutant: an entry that is observed again is dropped instead of overwritten
Put_DropKnown(m, cell) ==
    IF <<cell.x, cell.y>> \in DOMAIN m
    THEN [c \in DOMAIN m \ {<<cell.x, cell.y>>} |-> m[c]]
    ELSE [c \in DOMAIN m \cup {<<cell.x, cell.y>>} |->
            IF c = <<cell.x, cell.y>> THEN cell ELSE m[c]]

\* self.discovered_map[(cell.x, cell.y)] = cell
Put(m, cell) ==
    [c \in DOMAIN m \cup {<<cell.x, cell.y>>} |->
        IF c = <<cell.x, cell.y>> THEN cell ELSE m[c]]

\* the for loop of discover_surroundings over the response, in order
RECURSIVE MergeFrom(_, _, _)
MergeFrom(m, cells_data, i) ==
    IF i > Len(cells_data) THEN m
    ELSE MergeFrom(Put(m, cells_data[i]), cells_data, i + 1)

Merge(m, cells_data) == MergeFrom(m, cells_data, 1)

-----------------------------------------------------------------------------
(* find_shortest_path: BFS over the discovered map. *)

\* "if path" is false for None: None is the empty sequence, a path is never empty
NoPath == <<>>

\* mutant: the neighbours taken Down, Up, Right, Left
PlannerDirs_DownUpRightLeft == << <<0, 1>>, <<0, -1>>, <<1, 0>>, <<-1, 0>> >>

\* for dx, dy in [(0, -1), (0, 1), (-1, 0), (1, 0)]
PlannerDirs == << <<0, -1>>, <<0, 1>>, <<-1, 0>>, <<1, 0>> >>

\* mutant: the movable flag of the neighbour is not looked at
PlannerCanEnter_AnyKnown(neighbor) == neighbor.value # "trap"

\* if neighbor.movable and neighbor.value != "trap"
PlannerCanEnter(neighbor) == neighbor.movable /\ neighbor.value # "trap"

\* mutant: queue.pop(), the last entry instead of the first
QueuePop_Last(queue) == [head |-> queue[Len(queue)], rest |-> SubSeq(queue, 1, Len(queue) - 1)]

\* queue.popleft()
QueuePop(queue) == [head |-> queue[1], rest |-> Tail(queue)]

\* the for loop over the neighbours of (x, y), from direction i on
RECURSIVE ExpandFrom(_, _, _, _, _, _)
ExpandFrom(node, pth, queue, visited, m, i) ==
    IF i > Len(PlannerDirs) THEN [queue |-> queue, visited |-> visited]
    ELSE LET n == <<node[1] + PlannerDirs[i][1], node[2] + PlannerDirs[i][2]>>
             neighbor == Get(m, n)
         IN  IF n \in visited THEN ExpandFrom(node, pth, queue, visited, m, i + 1)
             ELSE IF neighbor = NoCell THEN ExpandFrom(node, pth, queue, visited, m, i + 1)
             ELSE IF PlannerCanEnter(neighbor)
                  THEN ExpandFrom(node, pth, Append(queue, [node |-> n, path |-> Append(pth, n)]),
                                  visited \cup {n}, m, i + 1)
                  ELSE ExpandFrom(node, pth, queue, visited, m, i + 1)

\* while queue: ...
RECURSIVE BFS(_, _, _)
BFS(queue, visited, m) ==
    IF queue = <<>> THEN NoPath
    ELSE LET p == QueuePop(queue)
             cell == Get(m, p.head.node)
         IN  IF cell # NoCell /\ cell.value = "stop" THEN p.head.path
             ELSE LET e == ExpandFrom(p.head.node, p.head.path, p.rest, visited, m, 1)
                  IN  BFS(e.queue, e.visited, m)

find_shortest_path(m, start) == BFS(<< [node |-> start, path |-> <<start>>] >>, {start}, m)

-----------------------------------------------------------------------------
(* _explore_adjacent and _backtrack: the first neighbour that qualifies. *)

\* mutant: the neighbours of _explore_adjacent taken Up, Left, Down, Right
ExploreDirs_UpLeftDownRight == << <<0, -1>>, <<-1, 0>>, <<0, 1>>, <<1, 0>> >>

\* directions = [(0, 1), (1, 0), (0, -1), (-1, 0)]
ExploreDirs == << <<0, 1>>, <<1, 0>>, <<0, -1>>, <<-1, 0>> >>
BacktrackDirs == << <<0, 1>>, <<1, 0>>, <<0, -1>>, <<-1, 0>> >>

NoTarget == <<>>

\* mutant: the trap test of _explore_adjacent left out
ExploreCanEnter_NoTrapTest(neighbor) == neighbor.movable

\* if neighbor.movable and neighbor.value != "trap" (in _explore_adjacent)
ExploreCanEnter(neighbor) == neighbor.movable /\ neighbor.value # "trap"

\* if neighbor and neighbor.movable and neighbor.value != "trap" (in _backtrack)
BacktrackCanEnter(neighbor) == neighbor # NoCell /\ neighbor.movable /\ neighbor.value # "trap"

RECURSIVE ExploreFrom(_, _, _, _)
ExploreFrom(m, pos, visited, i) ==
    IF i > Len(ExploreDirs) THEN NoTarget
    ELSE LET n == <<pos[1] + ExploreDirs[i][1], pos[2] + ExploreDirs[i][2]>>
             neighbor == Get(m, n)
         IN  IF n \in visited THEN ExploreFrom(m, pos, visited, i + 1)
             ELSE IF neighbor = NoCell THEN ExploreFrom(m, pos, visited, i + 1)
             ELSE IF ExploreCanEnter(neighbor) THEN n
             ELSE ExploreFrom(m, pos, visited, i + 1)

ExploreTarget(m, pos, visited) == ExploreFrom(m, pos, visited, 1)

RECURSIVE BacktrackFrom(_, _, _, _)
BacktrackFrom(m, pos, visited, i) ==
    IF i > Len(BacktrackDirs) THEN NoTarget
    ELSE LET n == <<pos[1] + BacktrackDirs[i][1], pos[2] + BacktrackDirs[i][2]>>
         IN  IF n \notin visited THEN BacktrackFrom(m, pos, visited, i + 1)
             ELSE IF BacktrackCanEnter(Get(m, n)) THEN n
             ELSE BacktrackFrom(m, pos, visited, i + 1)

BacktrackTarget(m, pos, visited) == BacktrackFrom(m, pos, visited, 1)

-----------------------------------------------------------------------------
(* The remote game service: what a discover or a move call may answer. *)

NoMaze == <<>>
NoResult == [position |-> <<0, 0>>, win |-> FALSE, dead |-> FALSE, none |-> TRUE]

SeqsUpTo(S, n) == UNION {[1..k -> S] : k \in 0..n}

\* terrain kinds the arbitrary service reports, each with either movable flag
\* (the solver tells apart only "stop", "trap" and the rest)
ServiceValues == {"path", "trap", "stop"}

ArbitraryCells == {MazeCell(c[1], c[2], v, b) : c \in Grid, v \in ServiceValues, b \in BOOLEAN}

ArbitraryMoves == [position : Grid, win : BOOLEAN, dead : BOOLEAN]

\* the honest service: the cell the agent stands on and its in-grid neighbours
Neighbours4(c) == << <<c[1], c[2]>>, <<c[1], c[2] + 1>>, <<c[1] + 1, c[2]>>,
                     <<c[1], c[2] - 1>>, <<c[1] - 1, c[2]>> >>

HonestCell(mz, c) == MazeCell(c[1], c[2], mz[c], mz[c] # "wall")

HonestDiscover(mz, pos) ==
    LET seen == SelectSeq(Neighbours4(pos), LAMBDA c : c \in DOMAIN mz)
    IN  [i \in 1..Len(seen) |-> HonestCell(mz, seen[i])]

HonestMove(mz, pos, target) ==
    IF target \in DOMAIN mz /\ mz[target] # "wall"
    THEN [position |-> target, win |-> mz[target] = "stop", dead |-> mz[target] = "trap"]
    ELSE [position |-> pos, win |-> FALSE, dead |-> FALSE]

\* a set of coordinates as a list, row by row
RECURSIVE SeqOf(_)
SeqOf(S) ==
    IF S = {} THEN <<>>
    ELSE LET c == CHOOSE c \in S : \A d \in S : c[2] < d[2] \/ (c[2] = d[2] /\ c[1] <= d[1])
         IN  <<c>> \o SeqOf(S \ {c})

\* the generous service: what the honest one shows, and any further cells of the maze
GenerousDiscover(mz, pos) ==
    LET near == {Neighbours4(pos)[i] : i \in 1..5} \cap DOMAIN mz
    IN  {HonestDiscover(mz, pos) \o [i \in 1..Len(SeqOf(S)) |-> HonestCell(mz, SeqOf(S)[i])] :
            S \in SUBSET (DOMAIN mz \ near)}

DiscoverResponses ==
    IF maze = NoMaze THEN SeqsUpTo(ArbitraryCells, MaxCells)
    ELSE IF service = "generous" THEN GenerousDiscover(maze, position)
    ELSE {HonestDiscover(maze, position)}

\* a discover call that raises: raise_for_status, or a cell that lacks one of the
\* keys "x", "y", "value", "move" (the cells before it are in the map by then)
DiscoverFailures ==
    IF service = "faulty" THEN SeqsUpTo(ArbitraryCells, MaxCells - 1) ELSE {}

DiscoverReplies ==
    {[ok |-> TRUE, cells |-> cs] : cs \in DiscoverResponses}
    \cup {[ok |-> FALSE, cells |-> cs] : cs \in DiscoverFailures}

\* what makes move_to raise: raise_for_status ("http"), or a key that
\* _update_state reads with response[...] and the response lacks
MoveAborts == {"http", "position_x", "position_y", "url_move", "url_discover"}

\* the move responses of the faulty service that fail or lack a key (the fields
\* that are not read are left at a fixed value); "win" and "dead" are read with
\* result.get(...), a missing one reads as None, which is false
FaultyMoves ==
    {[position |-> position, win |-> FALSE, dead |-> FALSE, missing |-> k] :
        k \in {"http", "position_x"}}
    \cup {[position |-> <<x, 0>>, win |-> FALSE, dead |-> FALSE, missing |-> "position_y"] :
            x \in 0..MaxX}
    \cup {[position |-> p, win |-> FALSE, dead |-> FALSE, missing |-> k] :
            p \in Grid, k \in {"url_move", "url_discover"}}
    \cup {[position |-> p, win |-> FALSE, dead |-> d, missing |-> "win"] :
            p \in Grid, d \in BOOLEAN}
    \cup {[position |-> p, win |-> w, dead |-> FALSE, missing |-> "dead"] :
            p \in Grid, w \in BOOLEAN}

\* every response to start-game or move carries a new pair of handles
WithHandles(r, missing) ==
    [position |-> r.position, win |-> r.win, dead |-> r.dead,
     url_move |-> issued + 1, url_discover |-> issued + 1, missing |-> missing]

MoveResponses(target) ==
    IF maze = NoMaze
    THEN {WithHandles(r, "none") : r \in ArbitraryMoves}
         \cup (IF service = "faulty" THEN {WithHandles(r, r.missing) : r \in FaultyMoves} ELSE {})
    ELSE {WithHandles(HonestMove(maze, position, target), "none")}

-----------------------------------------------------------------------------
(* solve_with_exploration *)

\* mutant: the cap tested with <= (one iteration too many)
LoopGuard_OffByOne == iteration <= cap

\* while iteration < max_iterations
LoopGuard == iteration < cap

\* mutant: url_discover is not taken from the response
update_state_KeepDiscover(response) ==
    /\ position' = IF response.missing = "position_x" THEN position
                   ELSE IF response.missing = "position_y"
                        THEN <<response.position[1], position[2]>>
                        ELSE response.position
    /\ url_move' = IF response.missing \in {"position_x", "position_y", "url_move"}
                   THEN url_move ELSE response.url_move
    /\ UNCHANGED url_discover

\* _update_state(response): the four assignments in order, up to the first key
\* that the response lacks (KeyError)
update_state(response) ==
    /\ position' = IF response.missing = "position_x" THEN position
                   ELSE IF response.missing = "position_y"
                        THEN <<response.position[1], position[2]>>
                        ELSE response.position
    /\ url_move' = IF response.missing \in {"position_x", "position_y", "url_move"}
                   THEN url_move ELSE response.url_move
    /\ url_discover' = IF response.missing \in {"position_x", "position_y", "url_move",
                                                 "url_discover"}
                       THEN url_discover ELSE response.url_discover

\* mutant: the move is counted as soon as it is requested
CountMove_Requested(response) == move_count + 1

\* self.move_count += 1, reached only when neither raise_for_status nor
\* _update_state raised
CountMove(response) ==
    IF response.missing \in MoveAborts THEN move_count ELSE move_count + 1

\* move_to(x, y) answered by response: raise_for_status, _update_state,
\* move_count, visited_positions
MoveTo(target, response, by) ==
    /\ IF response.missing = "http"
       THEN UNCHANGED <<position, url_move, url_discover>>
       ELSE update_state(response)
    /\ move_count' = CountMove(response)
    /\ visited_positions' = IF response.missing \in MoveAborts THEN visited_positions
                            ELSE visited_positions \cup {target}
    /\ result' = response
    /\ last_call' = [op |-> "move", to |-> target, by |-> by, url |-> url_move,
                     failed |-> response.missing # "none"]
    /\ issued' = IF response.missing = "http" THEN issued ELSE issued + 1
    /\ occupied' = occupied \cup {position'}
    \* cells and path are not read again before the next iteration assigns them
    /\ cells' = <<>>
    /\ path' = NoPath

Return(how) ==
    /\ pc' = "done"
    /\ outcome' = how

\* mutant: the current cell counts as the exit only if it is movable as well
AtStop_Movable(m, pos) ==
    Get(m, pos) # NoCell /\ Get(m, pos).value = "stop" /\ Get(m, pos).movable

\* current_cell = self.discovered_map.get((position_x, position_y));
\* if current_cell and current_cell.value == "stop"
AtStop(m, pos) == Get(m, pos) # NoCell /\ Get(m, pos).value = "stop"

\* iteration += 1; discover_surroundings(); the check of the current cell;
\* find_shortest_path()
Discover ==
    /\ pc = "loop"
    /\ LoopGuard
    /\ \E reply \in DiscoverReplies :
          /\ iteration' = iteration + 1
          /\ discovered_map' = Merge(discovered_map, reply.cells)
          /\ last_call' = [op |-> "discover", to |-> position, by |-> "loop",
                           url |-> url_discover, failed |-> ~reply.ok]
          \* the response of the last move is not read again
          /\ result' = NoResult
          /\ IF ~reply.ok
             THEN Return("RemoteServiceError") /\ cells' = <<>> /\ UNCHANGED path
             ELSE /\ cells' = reply.cells
                  /\ IF AtStop(discovered_map', position)
                     THEN Return("Won") /\ UNCHANGED path
                     ELSE /\ path' = find_shortest_path(discovered_map', position)
                          /\ pc' = "decide"
                          /\ UNCHANGED outcome
    /\ UNCHANGED <<position, visited_positions, move_count, maze,
                   url_move, url_discover, issued, cap, service, start_position, occupied,
                   workflow_vars>>

\* the loop ends on the cap: "Limite d'iterations atteinte"
LoopExit ==
    /\ pc = "loop"
    /\ ~LoopGuard
    /\ Return("IterationLimitExceeded")
    /\ UNCHANGED <<position, discovered_map, visited_positions, move_count, iteration,
                   cells, path, result, last_call, maze,
                   url_move, url_discover, issued, cap, service, start_position, occupied,
                   workflow_vars>>

\* mutant: the path is followed only while the exit is more than one step away
PathKnown_LongOnly == path # NoPath /\ Len(path) > 2

\* if path and len(path) > 1
PathKnown == path # NoPath /\ Len(path) > 1

\* if path and len(path) > 1: move_to(path[1])
PathMove ==
    /\ pc = "decide"
    /\ PathKnown
    /\ \E response \in MoveResponses(path[2]) :
          /\ MoveTo(path[2], response, "path")
          /\ IF response.missing \in MoveAborts THEN Return("RemoteServiceError")
             ELSE IF response.win THEN Return("Won")
             ELSE IF response.dead THEN Return("Dead")
             ELSE pc' = "loop" /\ UNCHANGED outcome
    /\ UNCHANGED <<discovered_map, iteration, maze, cap, service, start_position,
                   workflow_vars>>

\* else: moved = self._explore_adjacent(), a neighbour qualifies
ExploreMove ==
    /\ pc = "decide"
    /\ ~PathKnown
    /\ LET target == ExploreTarget(discovered_map, position, visited_positions)
       IN  /\ target # NoTarget
           /\ \E response \in MoveResponses(target) :
                 /\ MoveTo(target, response, "explore")
                 \* win: return True; dead: return False; otherwise: return True
                 /\ IF response.missing \in MoveAborts THEN Return("RemoteServiceError")
                    ELSE IF response.win THEN pc' = "loop" /\ UNCHANGED outcome
                    ELSE IF response.dead THEN pc' = "backtrack" /\ UNCHANGED outcome
                    ELSE pc' = "loop" /\ UNCHANGED outcome
    /\ UNCHANGED <<discovered_map, iteration, maze, cap, service, start_position,
                   workflow_vars>>

\* _explore_adjacent returns False without moving
ExploreNone ==
    /\ pc = "decide"
    /\ ~PathKnown
    /\ ExploreTarget(discovered_map, position, visited_positions) = NoTarget
    /\ pc' = "backtrack"
    /\ UNCHANGED <<position, discovered_map, visited_positions, move_count, iteration,
                   cells, path, result, last_call, outcome, maze,
                   url_move, url_discover, issued, cap, service, start_position, occupied,
                   workflow_vars>>

\* if not moved: moved = self._backtrack(), a neighbour qualifies
BacktrackMove ==
    /\ pc = "backtrack"
    /\ LET target == BacktrackTarget(discovered_map, position, visited_positions)
       IN  /\ target # NoTarget
           /\ \E response \in MoveResponses(target) :
                 /\ MoveTo(target, response, "backtrack")
                 \* win: return True; dead: return False, "Bloque"; otherwise: return True
                 /\ IF response.missing \in MoveAborts THEN Return("RemoteServiceError")
                    ELSE IF response.win THEN pc' = "loop" /\ UNCHANGED outcome
                    ELSE IF response.dead THEN Return("Stuck")
                    ELSE pc' = "loop" /\ UNCHANGED outcome
    /\ UNCHANGED <<discovered_map, iteration, maze, cap, service, start_position,
                   workflow_vars>>

\* _backtrack returns False without moving: "Bloque! Impossible de continuer."
BacktrackNone ==
    /\ pc = "backtrack"
    /\ BacktrackTarget(discovered_map, position, visited_positions) = NoTarget
    /\ Return("Stuck")
    /\ UNCHANGED <<position, discovered_map, visited_positions, move_count, iteration,
                   cells, path, result, last_call, maze,
                   url_move, url_discover, issued, cap, service, start_position, occupied,
                   workflow_vars>>

\* a time that has not come
Never == -1

\* PertimmAPIClient.__init__; main of niveau1 is not running
NoWorkflow ==
    /\ clock = 0
    /\ main_pc = "idle"
    /\ token = "none"
    /\ start_time = Never
    /\ wait_start_time = Never
    /\ status = "none"
    /\ confirmation_url = "none"
    /\ created_at = Never
    /\ completed_at = Never
    /\ confirmed_at = Never
    /\ raised = "none"

\* MazeSolver.__init__ and start_game, answered with a position
InitSolver ==
    /\ NoWorkflow
    /\ discovered_map = EmptyMap
    /\ visited_positions = {}
    /\ move_count = 0
    /\ iteration = 0
    /\ cells = <<>>
    /\ path = NoPath
    /\ result = NoResult
    /\ last_call = [op |-> "start", to |-> position, by |-> "main", url |-> 0,
                    failed |-> FALSE]
    /\ pc = "loop"
    /\ outcome = "InProgress"
    \* _update_state(result) of start_game
    /\ issued = 1
    /\ url_move = issued
    /\ url_discover = issued
    /\ start_position = position
    /\ occupied = {position}

Init ==
    /\ position \in Grid
    /\ InitSolver
    /\ maze = NoMaze
    /\ cap = max_iterations
    /\ service = "arbitrary"

\* the same run against a service whose calls may fail or lack a key
InitFaulty ==
    /\ position \in Grid
    /\ InitSolver
    /\ maze = NoMaze
    /\ cap = max_iterations
    /\ service = "faulty"

\* the mazes of the honest service: one home, one stop, the rest path, wall or trap
Mazes ==
    {mz \in [MazeGrid -> {"home", "stop", "path", "wall", "trap"}] :
        /\ Cardinality({c \in MazeGrid : mz[c] = "home"}) = 1
        /\ Cardinality({c \in MazeGrid : mz[c] = "stop"}) = 1}

Home(mz) == CHOOSE c \in DOMAIN mz : mz[c] = "home"

\* the game starts on the home cell of a hidden maze
InitMaze ==
    /\ maze \in Mazes
    /\ position = Home(maze)
    /\ InitSolver
    /\ cap = max_iterations
    /\ service = "honest"

Next ==
    \/ Discover
    \/ LoopExit
    \/ PathMove
    \/ ExploreMove
    \/ ExploreNone
    \/ BacktrackMove
    \/ BacktrackNone

Spec == Init /\ [][Next]_vars

SpecMaze == InitMaze /\ [][Next]_vars

SpecFaulty == InitFaulty /\ [][Next]_vars

\* the run against a hidden maze with max_iterations set to 1, 2, ..., the
\* service showing the neighbours only or more
InitCap ==
    /\ maze \in Mazes
    /\ position = Home(maze)
    /\ InitSolver
    /\ cap \in 1..max_iterations
    /\ service \in {"honest", "generous"}

SpecCap == InitCap /\ [][Next]_vars

\* the 3 by 3 grid, Home at (0,0) and Stop at (2,2): all the other cells Path, or
\* some of the cells around Home turned into Wall
ScenarioGrid == (0..2) \X (0..2)

ScenarioWalls == {<<0, 1>>, <<1, 0>>, <<1, 1>>, <<0, 2>>}

ScenarioMaze(W) ==
    [c \in ScenarioGrid |->
        IF c = <<0, 0>> THEN "home" ELSE IF c = <<2, 2>> THEN "stop"
        ELSE IF c \in W THEN "wall" ELSE "path"]

AllPathMaze == ScenarioMaze({})

\* the service honours every move and shows at least the cell and its neighbours
InitScenario ==
    /\ \E W \in SUBSET ScenarioWalls : maze = ScenarioMaze(W)
    /\ position = Home(maze)
    /\ InitSolver
    /\ cap = ScenarioCap
    /\ service = "generous"

SpecScenario == InitScenario /\ [][Next]_vars

\* find_shortest_path alone, on any map of PlanGrid and from any start in it
PlanKinds ==
    {[value |-> "path", movable |-> TRUE], [value |-> "stop", movable |-> TRUE],
     [value |-> "trap", movable |-> TRUE], [value |-> "wall", movable |-> TRUE],
     [value |-> "wall", movable |-> FALSE], [value |-> "stop", movable |-> FALSE]}

InitPlanner ==
    /\ NoWorkflow
    /\ \E K \in SUBSET PlanGrid : \E f \in [K -> PlanKinds] :
          discovered_map = [c \in K |-> MazeCell(c[1], c[2], f[c].value, f[c].movable)]
    /\ position \in PlanGrid
    /\ visited_positions = {}
    /\ move_count = 0
    /\ iteration = 0
    /\ cells = <<>>
    /\ path = NoPath
    /\ result = NoResult
    /\ last_call = [op |-> "start", to |-> position, by |-> "main", url |-> 0,
                    failed |-> FALSE]
    /\ pc = "plan"
    /\ outcome = "InProgress"
    /\ maze = NoMaze
    /\ issued = 1
    /\ url_move = issued
    /\ url_discover = issued
    /\ cap = max_iterations
    /\ service = "arbitrary"
    /\ start_position = position
    /\ occupied = {position}

\* path = self.find_shortest_path()
Plan ==
    /\ pc = "plan"
    /\ path' = find_shortest_path(discovered_map, position)
    /\ pc' = "planned"
    /\ UNCHANGED <<position, discovered_map, visited_positions, move_count, iteration,
                   cells, result, last_call, outcome, maze,
                   url_move, url_discover, issued, cap, service, start_position, occupied,
                   workflow_vars>>

NextPlanner == Plan

SpecPlanner == InitPlanner /\ [][NextPlanner]_vars

\* discover_surroundings alone: a response merged into a map, then merged again
MergeKinds ==
    {[value |-> "path", movable |-> TRUE], [value |-> "trap", movable |-> TRUE],
     [value |-> "wall", movable |-> FALSE]}

MergeCells == {MazeCell(0, y, k.value, k.movable) : y \in 0..MergeMaxY, k \in MergeKinds}

InitMerge ==
    /\ NoWorkflow
    /\ \E K \in SUBSET ({0} \X (0..MergeMaxY)) : \E f \in [K -> MergeKinds] :
          discovered_map = [c \in K |-> MazeCell(c[1], c[2], f[c].value, f[c].movable)]
    /\ cells \in SeqsUpTo(MergeCells, MergeMaxCells)
    /\ position = <<0, 0>>
    /\ visited_positions = {}
    /\ move_count = 0
    /\ iteration = 0
    /\ path = NoPath
    /\ result = NoResult
    /\ last_call = [op |-> "start", to |-> position, by |-> "main", url |-> 0,
                    failed |-> FALSE]
    /\ pc = "merge"
    /\ outcome = "InProgress"
    /\ maze = NoMaze
    /\ issued = 1
    /\ url_move = issued
    /\ url_discover = issued
    /\ cap = max_iterations
    /\ service = "arbitrary"
    /\ start_position = position
    /\ occupied = {position}

\* the loop of discover_surroundings over the response cells, once and once more
MergeResponse ==
    /\ pc \in {"merge", "merged"}
    /\ discovered_map' = Merge(discovered_map, cells)
    /\ pc' = IF pc = "merge" THEN "merged" ELSE "merged again"
    /\ UNCHANGED <<position, visited_positions, move_count, iteration, cells, path,
                   result, last_call, outcome, maze,
                   url_move, url_discover, issued, cap, service, start_position, occupied,
                   workflow_vars>>

NextMerge == MergeResponse

SpecMerge == InitMerge /\ [][NextMerge]_vars

-----------------------------------------------------------------------------
(* The registration workflow of src/niveau1.py (main).  Time passes while a *)
(* request is being answered and while time.sleep runs; the statements      *)
(* between two requests take no time.                                       *)

\* check_interval = 0.5: the unit of the clock
check_interval == 1

Seconds(n) == 2 * n * check_interval

\* wait_for_completion(status_url, timeout=25)
wait_timeout == Seconds(25)

\* if elapsed_time >= 30
confirm_limit == Seconds(30)

Delays == 0..MaxDelay

\* MazeSolver is not running
NoSolver ==
    /\ position = <<0, 0>>
    /\ discovered_map = EmptyMap
    /\ visited_positions = {}
    /\ move_count = 0
    /\ iteration = 0
    /\ cells = <<>>
    /\ path = NoPath
    /\ result = NoResult
    /\ last_call = [op |-> "none", to |-> position, by |-> "main", url |-> 0,
                    failed |-> FALSE]
    /\ pc = "idle"
    /\ outcome = "InProgress"
    /\ maze = NoMaze
    /\ issued = 0
    /\ url_move = issued
    /\ url_discover = issued
    /\ cap = max_iterations
    /\ service = "arbitrary"
    /\ start_position = position
    /\ occupied = {}

\* client = PertimmAPIClient()
InitWorkflow ==
    /\ NoSolver
    /\ clock = 0
    /\ main_pc = "login"
    /\ token = "none"
    /\ start_time = Never
    /\ wait_start_time = Never
    /\ status = "none"
    /\ confirmation_url = "none"
    /\ created_at = Never
    /\ completed_at = Never
    /\ confirmed_at = Never
    /\ raised = "none"

\* main returns or raises
EndMain(exception) ==
    /\ main_pc' = "done"
    /\ raised' = exception

\* steps 1 and 2 of main: register (its answer and its failures are dropped),
\* then login, which sets client.token from the answer, None if the call failed
\* or the answer holds no token; token[:20] raises TypeError on None
RegisterAndLogin ==
    /\ main_pc = "login"
    /\ \E d \in Delays, t \in {"none", "token"} :
          /\ clock' = clock + d
          /\ token' = t
          /\ IF t = "none" THEN EndMain("TypeError")
             ELSE main_pc' = "create" /\ UNCHANGED raised
    /\ UNCHANGED <<start_time, wait_start_time, status, confirmation_url,
                   created_at, completed_at, confirmed_at>>
    /\ UNCHANGED solver_vars

\* step 3 of main: start_time = time.time(); create_application(...), answered
\* after d by a failure, by an application without its "url" (the first poll of
\* wait_for_completion then raises before any request), or by an application;
\* the service creates the application at some time c of the call.  Then
\* wait_for_completion reads its own start_time.
CreateApplication ==
    /\ main_pc = "create"
    /\ start_time' = clock
    /\ \E d \in Delays, answer \in {"http", "no url", "url"} :
          /\ clock' = clock + d
          /\ IF answer = "http"
             THEN /\ EndMain("HTTPError")
                  /\ UNCHANGED <<created_at, wait_start_time>>
             ELSE /\ \E c \in 0..d : created_at' = clock + c
                  /\ wait_start_time' = clock'
                  /\ IF answer = "no url" THEN EndMain("MissingSchema")
                     ELSE main_pc' = "wait" /\ UNCHANGED raised
    /\ UNCHANGED <<token, status, confirmation_url, completed_at, confirmed_at>>
    /\ UNCHANGED solver_vars

\* while time.time() - start_time < timeout
WaitGuard == clock - wait_start_time < wait_timeout

\* if elapsed_time >= 30
TooLate(elapsed_time) == elapsed_time >= confirm_limit

\* one turn of the loop of wait_for_completion: the status request, answered
\* after d; on a failure raise_for_status raises; on COMPLETED the function
\* returns and main reads the confirmation_url and the clock (steps 4 and 5, up
\* to the test of elapsed_time); on any other status time.sleep(check_interval)
Poll ==
    /\ main_pc = "wait"
    /\ WaitGuard
    /\ \E d \in Delays, answer \in {"http", "PENDING", "COMPLETED", "COMPLETED no url"} :
          IF answer = "http"
          THEN /\ clock' = clock + d
               /\ EndMain("HTTPError")
               /\ UNCHANGED <<status, confirmation_url, completed_at>>
          ELSE IF answer = "PENDING"
          THEN /\ clock' = clock + d + check_interval
               /\ status' = "PENDING"
               /\ UNCHANGED <<main_pc, raised, confirmation_url, completed_at>>
          ELSE /\ clock' = clock + d
               /\ status' = "COMPLETED"
               /\ completed_at' = clock'
               /\ confirmation_url' = IF answer = "COMPLETED" THEN "url" ELSE "none"
               /\ IF TooLate(clock' - start_time)
                  THEN EndMain("none")
                  ELSE main_pc' = "confirm" /\ UNCHANGED raised
    /\ UNCHANGED <<token, start_time, wait_start_time, created_at, confirmed_at>>
    /\ UNCHANGED solver_vars

\* the loop of wait_for_completion ends: raise TimeoutError
WaitTimeout ==
    /\ main_pc = "wait"
    /\ ~WaitGuard
    /\ EndMain("TimeoutError")
    /\ UNCHANGED <<clock, token, start_time, wait_start_time, status, confirmation_url,
                   created_at, completed_at, confirmed_at>>
    /\ UNCHANGED solver_vars

\* confirm_application(confirmation_url): the PATCH request is sent now and
\* answered after d, or not sent at all when there is no URL to send it to
ConfirmApplication ==
    /\ main_pc = "confirm"
    /\ IF confirmation_url = "none"
       THEN /\ EndMain("MissingSchema")
            /\ UNCHANGED <<clock, confirmed_at>>
       ELSE /\ confirmed_at' = clock
            /\ \E d \in Delays, ok \in BOOLEAN :
                  /\ clock' = clock + d
                  /\ EndMain(IF ok THEN "none" ELSE "HTTPError")
    /\ UNCHANGED <<token, start_time, wait_start_time, status, confirmation_url,
                   created_at, completed_at>>
    /\ UNCHANGED solver_vars

NextWorkflow ==
    \/ RegisterAndLogin
    \/ CreateApplication
    \/ Poll
    \/ WaitTimeout
    \/ ConfirmApplication

SpecWorkflow == InitWorkflow /\ [][NextWorkflow]_vars

-----------------------------------------------------------------------------
(* Properties of the run. *)

\* C1: every move the controller executes targets a coordinate that, at the
\* moment of the move, is in discovered_map with movable = true and a value
\* other than "trap" (move_to leaves discovered_map alone, so the map right
\* after the move is the map of the moment of the move).
C1_MoveTargetsKnownSafe ==
    last_call.op = "move" =>
        LET cell == Get(discovered_map, last_call.to)
        IN  cell # NoCell /\ cell.movable /\ cell.value # "trap"

\* an exploration move was executed while a movable trap is on the map
C1_Witness ==
    /\ last_call.op = "move"
    /\ last_call.by = "explore"
    /\ \E c \in DOMAIN discovered_map :
          discovered_map[c].value = "trap" /\ discovered_map[c].movable

\* C2: a move response that indicates dead (and not win) ends the run with
\* outcome Dead: right after it the run is over, so no discover or move call
\* follows, and the outcome is neither Stuck nor IterationLimitExceeded.
C2_DeadEndsRunDead ==
    (last_call.op = "move" /\ result.dead /\ ~result.win) =>
        (pc = "done" /\ outcome = "Dead")

\* C3: a move response that indicates win ends the run Won at once, whichever
\* branch issued the move.
C3_WinEndsRunWon ==
    (last_call.op = "move" /\ result.win) =>
        (pc = "done" /\ outcome = "Won")

\* what is left to run: the iterations left, then the steps left in the iteration
Rank ==
    3 * (max_iterations - iteration)
    + (CASE pc = "decide" -> 3 [] pc = "backtrack" -> 2 [] pc = "loop" -> 1 [] OTHER -> 0)

\* a run that is not over can take a step: at the loop head the service answers
\* the discover call or the cap ends the run; at the other places one of the
\* branches is open
CanStep ==
    CASE pc = "loop" -> IF LoopGuard THEN DiscoverResponses # {} ELSE ENABLED LoopExit
      [] pc = "decide" -> ENABLED (PathMove \/ ExploreMove \/ ExploreNone)
      [] pc = "backtrack" -> ENABLED (BacktrackMove \/ BacktrackNone)
      [] OTHER -> pc = "done"

\* C4: every run terminates: a run that is not over can always take a step,
\* every step decreases Rank, which never goes below 0; the loop runs at most
\* max_iterations iterations (one discover call each), and a run that reaches
\* the cap without another terminal state ends IterationLimitExceeded.
C4_Terminates ==
    /\ [](CanStep)
    /\ [][Rank' < Rank]_vars
    /\ [](Rank >= 0 /\ iteration <= max_iterations)
    /\ [][(pc = "loop" /\ iteration >= max_iterations) =>
            (pc' = "done" /\ outcome' = "IterationLimitExceeded")]_vars
    /\ []((pc = "done" /\ outcome = "IterationLimitExceeded") => iteration = max_iterations)

\* the cap was reached and the run ended IterationLimitExceeded
C4_Witness ==
    pc = "done" /\ outcome = "IterationLimitExceeded" /\ iteration = max_iterations

\* C9: first observation wins: a step never changes or removes an entry that
\* discovered_map already holds.
C9_FirstObservationWins ==
    [][\A c \in DOMAIN discovered_map :
          c \in DOMAIN discovered_map' /\ discovered_map'[c] = discovered_map[c]]_vars

-----------------------------------------------------------------------------
(* Runs against a hidden maze. *)

Adjacent(a, b) ==
    \/ a[1] = b[1] /\ (a[2] = b[2] + 1 \/ b[2] = a[2] + 1)
    \/ a[2] = b[2] /\ (a[1] = b[1] + 1 \/ b[1] = a[1] + 1)

\* the cells of the maze reachable from S through cells that are neither wall nor trap
RECURSIVE MazeRegion(_, _)
MazeRegion(mz, S) ==
    LET T == S \cup {c \in DOMAIN mz :
                        mz[c] \notin {"wall", "trap"} /\ \E d \in S : Adjacent(c, d)}
    IN  IF T = S THEN S ELSE MazeRegion(mz, T)

StopUnreachable(mz) ==
    \A c \in MazeRegion(mz, {Home(mz)}) : mz[c] # "stop"

\* C5: when the Stop cell cannot be reached from the start through movable
\* non-Trap cells, the run ends Stuck before the cap, not IterationLimitExceeded
\* (stated for the mazes whose reachable region has fewer cells than the cap has
\* iterations, so that the cap leaves room to explore all of it).
C5_UnreachableStopEndsStuck ==
    (/\ maze # NoMaze
     /\ StopUnreachable(maze)
     /\ Cardinality(MazeRegion(maze, {Home(maze)})) < max_iterations
     /\ pc = "done")
    => outcome = "Stuck"

-----------------------------------------------------------------------------
(* Properties of find_shortest_path. *)

\* C6: the returned path holds no coordinate recorded as wall or trap and no
\* coordinate absent from discovered_map (stated for the coordinates after the
\* start, which the planner takes as given).
C6_PathAvoidsWallAndTrap ==
    (pc = "planned" /\ path # NoPath) =>
        \A i \in 2..Len(path) :
            /\ path[i] \in DOMAIN discovered_map
            /\ discovered_map[path[i]].value \notin {"wall", "trap"}

\* the reference search: the cells at distance d, d + 1, ... from the start through
\* discovered, movable, non-trap cells, up to the first layer that holds a stop cell
RefEnter(m, c) == c \in DOMAIN m /\ m[c].movable /\ m[c].value # "trap"

RefIsStop(m, c) == c \in DOMAIN m /\ m[c].value = "stop"

RECURSIVE RefLayers(_, _, _)
RefLayers(m, layers, seen) ==
    LET frontier == layers[Len(layers)]
        next == {c \in DOMAIN m \ seen : RefEnter(m, c) /\ \E f \in frontier : Adjacent(c, f)}
    IN  IF \E c \in frontier : RefIsStop(m, c) THEN layers
        ELSE IF next = {} THEN <<>>
        ELSE RefLayers(m, Append(layers, next), seen \cup next)

\* the number of steps to the nearest stop cell, -1 when there is none
RefDist(m, start) == Len(RefLayers(m, <<{start}>>, {start})) - 1

\* C7: the number of steps of the returned path is the distance the reference
\* search finds to the nearest stop cell.
C7_PathIsShortest ==
    (pc = "planned" /\ path # NoPath) =>
        Len(path) - 1 = RefDist(discovered_map, position)

\* a path was returned although a longer way round to a stop cell exists
C7_Witness ==
    /\ pc = "planned"
    /\ path # NoPath
    /\ Len(path) = 3
    /\ \E c \in DOMAIN discovered_map :
          /\ RefIsStop(discovered_map, c) /\ RefEnter(discovered_map, c)
          /\ c # path[Len(path)]

\* all the shortest paths from the start to a stop cell, built layer by layer
RECURSIVE RefPaths(_, _, _, _)
RefPaths(m, layers, k, paths) ==
    IF k > Len(layers) THEN {p \in paths : RefIsStop(m, p[Len(p)])}
    ELSE RefPaths(m, layers, k + 1,
                  {q \in {Append(p, c) : p \in paths, c \in layers[k]} :
                      Adjacent(q[Len(q)], q[Len(q) - 1])})

ShortestPaths(m, start) ==
    LET layers == RefLayers(m, <<{start}>>, {start})
    IN  IF layers = <<>> THEN {} ELSE RefPaths(m, layers, 2, {<<start>>})

\* the place of the step from a to b in a list of directions
RECURSIVE DirRankFrom(_, _, _, _)
DirRankFrom(order, a, b, i) ==
    IF i > Len(order) THEN i
    ELSE IF <<b[1] - a[1], b[2] - a[2]>> = order[i] THEN i
    ELSE DirRankFrom(order, a, b, i + 1)

\* p comes before q when, at the first step where they part, p takes the
\* direction that is earlier in order
RECURSIVE ComesBeforeFrom(_, _, _, _)
ComesBeforeFrom(order, p, q, i) ==
    IF i >= Len(p) \/ i >= Len(q) THEN FALSE
    ELSE IF p[i + 1] = q[i + 1] THEN ComesBeforeFrom(order, p, q, i + 1)
    ELSE DirRankFrom(order, p[i], p[i + 1], 1) < DirRankFrom(order, q[i], q[i + 1], 1)

PreferredPath(order, paths) ==
    CHOOSE p \in paths : \A q \in paths : p = q \/ ComesBeforeFrom(order, p, q, 1)

UpDownLeftRight == << <<0, -1>>, <<0, 1>>, <<-1, 0>>, <<1, 0>> >>
DownUpRightLeft == << <<0, 1>>, <<0, -1>>, <<1, 0>>, <<-1, 0>> >>

\* C8 as amended: among the shortest paths of equal length, the returned one is
\* the one preferred under the priority Up (0,-1), Down (0,+1), Left (-1,0),
\* Right (+1,0).
C8_TieBreakUpDownLeftRight ==
    (pc = "planned" /\ path # NoPath) =>
        path = PreferredPath(UpDownLeftRight, ShortestPaths(discovered_map, position))

\* C8 as claimed: the returned path is the one preferred under the priority
\* Down (0,+1), Up (0,-1), Right (+1,0), Left (-1,0).
C8_TieBreakDownUpRightLeft ==
    (pc = "planned" /\ path # NoPath) =>
        path = PreferredPath(DownUpRightLeft, ShortestPaths(discovered_map, position))

\* several shortest paths exist and one of them was returned
C8_Witness ==
    /\ pc = "planned"
    /\ path # NoPath
    /\ Cardinality(ShortestPaths(discovered_map, position)) >= 2

\* the coordinates that can be reached from the coordinates of S by steps to an
\* axis-aligned neighbour that is discovered, movable and not a trap
RECURSIVE KnownRegion(_, _)
KnownRegion(m, S) ==
    LET T == S \cup {c \in DOMAIN m :
                        m[c].movable /\ m[c].value # "trap" /\ \E d \in S : Adjacent(c, d)}
    IN  IF T = S THEN S ELSE KnownRegion(m, T)

StopInReach(m, start) == \E c \in KnownRegion(m, {start}) : c \in DOMAIN m /\ m[c].value = "stop"

\* C21: planner completeness.  find_shortest_path returns None exactly when no
\* Stop cell can be reached from the start through discovered, movable, non-Trap
\* cells by steps to one of the four axis-aligned neighbours; when the start
\* itself is recorded as Stop the result is the one-element path [start]; and
\* every returned path begins at the start, ends on a cell recorded as Stop and
\* joins axis-aligned neighbours.
C21_PlannerComplete ==
    pc = "planned" =>
        /\ path = NoPath <=> ~StopInReach(discovered_map, position)
        /\ (position \in DOMAIN discovered_map /\ discovered_map[position].value = "stop")
              => path = <<position>>
        /\ path # NoPath =>
              /\ path[1] = position
              /\ path[Len(path)] \in DOMAIN discovered_map
              /\ discovered_map[path[Len(path)]].value = "stop"
              /\ \A i \in 1..(Len(path) - 1) : Adjacent(path[i], path[i + 1])

\* None was returned on a map that records a Stop cell next to a cell of the
\* start's region: the Stop cell is known but cannot be entered
C21_Witness ==
    /\ pc = "planned"
    /\ path = NoPath
    /\ Cardinality(KnownRegion(discovered_map, {position})) > 1
    /\ \E c \in DOMAIN discovered_map :
          /\ discovered_map[c].value = "stop"
          /\ \E d \in KnownRegion(discovered_map, {position}) : Adjacent(c, d)

-----------------------------------------------------------------------------
(* Properties of the merge of discover_surroundings. *)

\* C10: merge is idempotent: merging a response that has just been merged leaves
\* discovered_map as it is (same coordinates, same values, same movable flags).
C10_MergeIdempotent ==
    [][pc = "merged" => discovered_map' = discovered_map]_vars

\* a response that names one coordinate twice, with different cells, was merged
\* twice, next to an entry of the map that the response does not name
C10_Witness ==
    /\ pc = "merged again"
    /\ Len(cells) = 2
    /\ cells[1].y = cells[2].y
    /\ cells[1] # cells[2]
    /\ \E c \in DOMAIN discovered_map : c # <<0, cells[1].y>>

-----------------------------------------------------------------------------
(* Properties of the calls of a run. *)

\* C11: every discover and move call of a run uses the endpoint handle of the
\* most recent successful start-game or move response (the service numbers the
\* pairs of handles it sends, issued is the number of the last pair), and after
\* each successful move both url_move and url_discover are those of the response.
C11_CallsUseLatestHandle ==
    /\ [][last_call' # last_call => last_call'.url = issued]_vars
    /\ [][move_count' = move_count + 1 =>
            /\ url_move' = result'.url_move /\ url_move' = issued'
            /\ url_discover' = result'.url_discover /\ url_discover' = issued']_vars

\* a discover call issued after two successful moves, with the third pair of handles
C11_Witness ==
    /\ last_call.op = "discover"
    /\ ~last_call.failed
    /\ move_count = 2
    /\ last_call.url = 3

\* C12: the scanned positions (the positions at which a discover call was
\* issued) are among visited_positions and the start position.  visited_positions
\* only grows and the start position is fixed, so the set of scanned positions
\* is within them in every state exactly when every discover call is issued
\* at a position that is within them at that moment.
C12_ScannedWithinMoveHistory ==
    last_call.op = "discover" =>
        last_call.to \in visited_positions \cup {start_position}

\* C15: the controller discovers again after every single step: every iteration
\* issues exactly one discover call, every discover call opens an iteration, and
\* the call that precedes a move call is always a discover call (at most one
\* move per iteration, a discover between any two consecutive moves).
C15_DiscoverBetweenMoves ==
    /\ [][iteration' # iteration =>
            (iteration' = iteration + 1 /\ last_call' # last_call
             /\ last_call'.op = "discover")]_vars
    /\ [][(last_call' # last_call /\ last_call'.op = "discover") =>
            iteration' = iteration + 1]_vars
    /\ [][(last_call' # last_call /\ last_call'.op = "move") =>
            last_call.op = "discover"]_vars

-----------------------------------------------------------------------------
(* The rush to a known exit. *)

\* the number of steps from the position to the nearest Stop cell through
\* discovered, movable, non-Trap cells; -1 when the map shows no way
KnownDist == RefDist(discovered_map, position)

\* while a way to a Stop cell is known, the step taken is the move to path[1]
\* of a shortest path (path[2], counting from 1), never an exploration or a
\* backtrack step, and it brings the agent one step nearer
RushStep ==
    [][(pc = "decide" /\ KnownDist >= 1) =>
          /\ last_call' # last_call
          /\ last_call'.op = "move"
          /\ last_call'.by = "path"
          /\ Len(path) - 1 = KnownDist
          /\ last_call'.to = path[2]
          /\ RefDist(discovered_map', position') = KnownDist - 1]_vars

\* once a way is known, no step loses it or makes it longer
RushKeeps ==
    [][KnownDist >= 0 =>
          /\ RefDist(discovered_map', position') >= 0
          /\ RefDist(discovered_map', position') <= KnownDist]_vars

\* C16 as amended: rush to the exit.  Whenever a Stop cell is reachable from the
\* position through discovered, movable, non-Trap cells, the controller moves to
\* path[1] of the shortest path; with immutable terrain and a service that
\* honours moves the known distance decreases by one with every such move, and
\* the run ends Won unless the iteration cap ends it first, in which case it
\* ends IterationLimitExceeded with the Stop cell still at a known distance.
C16_RushEndsWonOrOnCap ==
    /\ RushStep
    /\ RushKeeps
    /\ []((pc = "done" /\ KnownDist >= 0) =>
            \/ outcome = "Won"
            \/ (outcome = "IterationLimitExceeded" /\ KnownDist >= 1 /\ iteration = cap))

\* C16 as claimed: the same, and the run always ends Won once a way to a Stop
\* cell is known.
C16_RushEndsWon ==
    /\ RushStep
    /\ RushKeeps
    /\ []((pc = "done" /\ KnownDist >= 0) => outcome = "Won")

\* a step of the shortest path was taken and the Stop cell is still a known
\* distance away
C16_Witness ==
    /\ pc = "loop"
    /\ last_call.op = "move"
    /\ last_call.by = "path"
    /\ KnownDist >= 1
    /\ iteration < cap

-----------------------------------------------------------------------------
(* The choice of the step when no way to a Stop cell is known. *)

\* Down (0,+1), Right (+1,0), Up (0,-1), Left (-1,0)
DownRightUpLeft == << <<0, 1>>, <<1, 0>>, <<0, -1>>, <<-1, 0>> >>

\* the coordinates recorded as movable and not Trap
KnownSafe(m) == {c \in DOMAIN m : m[c].movable /\ m[c].value # "trap"}

\* the first neighbour of pos, in the order Down, Right, Up, Left, that is in S
FirstNeighbourIn(pos, S) ==
    LET at(i) == <<pos[1] + DownRightUpLeft[i][1], pos[2] + DownRightUpLeft[i][2]>>
        I == {i \in 1..4 : at(i) \in S}
    IN  IF I = {} THEN NoTarget ELSE at(CHOOSE i \in I : \A j \in I : i <= j)

\* C17: when no path to a Stop cell is known, the step taken is the move to the
\* first neighbour in the order Down, Right, Up, Left that is discovered,
\* movable, non-Trap and unvisited; only if no neighbour qualifies does the
\* controller backtrack, to the first neighbour in the same order that is
\* visited, movable and non-Trap; if neither exists no move is made and the run
\* ends Stuck.
C17_AdjacentThenBacktrack ==
    [][/\ (pc = "decide" /\ KnownDist < 1) =>
            LET t == FirstNeighbourIn(position,
                                      KnownSafe(discovered_map) \ visited_positions)
            IN  IF t # NoTarget
                THEN /\ last_call' # last_call
                     /\ last_call'.op = "move" /\ last_call'.by = "explore"
                     /\ last_call'.to = t
                     /\ pc' # "backtrack"
                ELSE UNCHANGED last_call /\ pc' = "backtrack"
       /\ pc = "backtrack" =>
            LET t == FirstNeighbourIn(position,
                                      KnownSafe(discovered_map) \cap visited_positions)
            IN  IF t # NoTarget
                THEN /\ last_call' # last_call
                     /\ last_call'.op = "move" /\ last_call'.by = "backtrack"
                     /\ last_call'.to = t
                ELSE UNCHANGED last_call /\ pc' = "done" /\ outcome' = "Stuck"]_vars

\* C18: an exploration step (a move issued by _explore_adjacent) never targets a
\* position the agent has occupied before in the run, the start position
\* included.
C18_ExploreTargetsNewGround ==
    [][(last_call' # last_call /\ last_call'.op = "move" /\ last_call'.by = "explore") =>
          last_call'.to \notin occupied]_vars

-----------------------------------------------------------------------------
(* Failing calls, and the exit underfoot. *)

\* C19: a failing discover or move call (transport or HTTP error, or a response
\* that lacks a required field) aborts the run at once: the run is over with the
\* error, not Won, no further call is issued, and the failed move is neither
\* counted in move_count nor added to visited_positions.
C19_FailedCallAbortsRun ==
    /\ [](last_call.failed => (pc = "done" /\ outcome = "RemoteServiceError"))
    /\ [][(last_call' # last_call /\ last_call'.failed) =>
            (move_count' = move_count /\ visited_positions' = visited_positions)]_vars
    /\ [][pc # "done"]_vars

\* C20: if right after the discover step of an iteration the map records the
\* current cell as Stop, the run is over and Won in that iteration: no next step
\* is asked for and no move call is issued (the discover step makes no move and
\* nothing follows the end of the run).
C20_StopUnderfootEndsWon ==
    /\ []((/\ last_call.op = "discover"
           /\ position \in DOMAIN discovered_map
           /\ discovered_map[position].value = "stop")
          => (pc = "done" /\ outcome = "Won"))
    /\ [][(last_call' # last_call /\ last_call'.op = "discover") =>
            (move_count' = move_count /\ position' = position)]_vars
    /\ [][pc # "done"]_vars

\* after a move, the discover step showed the current cell as a Stop cell that
\* is not movable, and the run ended Won
C20_Witness ==
    /\ pc = "done"
    /\ outcome = "Won"
    /\ last_call.op = "discover"
    /\ move_count >= 1
    /\ position \in DOMAIN discovered_map
    /\ discovered_map[position].value = "stop"
    /\ ~discovered_map[position].movable

-----------------------------------------------------------------------------
(* Runs on the 3 by 3 grid. *)

\* C13: on the 3 by 3 grid whose cells are all traversable, Home at (0,0), Stop
\* at (2,2), no Trap, with a service that honours every move and whose discover
\* shows at least the current cell and its in-grid neighbours, the run started
\* at Home reaches Won in at most 4 moves: it never makes a fifth move, it can
\* always go on until it is over, and when it is over it is Won.
C13_AllPathGridWonInFourMoves ==
    maze = AllPathMaze =>
        /\ CanStep
        /\ move_count <= 4
        /\ iteration <= 4
        /\ pc = "done" => outcome = "Won"

\* the run on the all-Path grid is over, Won with its fourth move
C13_Witness ==
    /\ maze = AllPathMaze
    /\ pc = "done"
    /\ outcome = "Won"
    /\ move_count = 4

-----------------------------------------------------------------------------
(* Runs with a given iteration cap. *)

\* the maze as a map that shows all of it
FullMap(mz) == [c \in DOMAIN mz |-> HonestCell(mz, c)]

\* the number of moves from Home to the Stop through cells that are neither
\* Wall nor Trap, -1 when there is no way
MovesNeeded(mz) == RefDist(FullMap(mz), Home(mz))

\* C14: with the iteration cap set to 1, on a solvable maze whose exit needs at
\* least 2 moves from the start, the run is never Won and ends
\* IterationLimitExceeded: it runs one iteration with at most one move, can
\* always go on until it is over, and is over only as IterationLimitExceeded.
C14_CapOneEndsIterationLimitExceeded ==
    (cap = 1 /\ MovesNeeded(maze) >= 2) =>
        /\ CanStep
        /\ iteration <= 1
        /\ move_count <= 1
        /\ outcome # "Won"
        /\ pc = "done" => outcome = "IterationLimitExceeded"

\* a run with the cap at 1 ended on the cap after its only move, on a maze
\* whose exit is 2 moves away
C14_Witness ==
    /\ cap = 1
    /\ MovesNeeded(maze) = 2
    /\ pc = "done"
    /\ outcome = "IterationLimitExceeded"
    /\ move_count = 1

-----------------------------------------------------------------------------
(* The move counter. *)

\* the move responses the service has sent since start-game (each one carries
\* the next pair of handles)
MovesAnswered == issued - 1

\* the last move response lacked a key that _update_state reads: move_to raised
\* out of line 117 and the run was aborted
LastMoveRaised ==
    /\ outcome = "RemoteServiceError"
    /\ last_call.op = "move"
    /\ result.missing \in {"position_x", "position_y", "url_move", "url_discover"}

\* the step is a call of move_to that returned: the request was answered and the
\* response held the four keys of _update_state
MoveCompleted ==
    /\ last_call' # last_call
    /\ last_call'.op = "move"
    /\ result'.missing \in {"none", "win", "dead"}

\* C22: move_count is the number of move calls that completed successfully since
\* the start of the game: it is the number of move responses received, less the
\* one on which move_to raised, if any (0 right after start_game); it grows by
\* exactly 1 in a step in which move_to returns, and no other step (a discover
\* call with its planning, a failed move, the end of the run) changes it.
C22_MoveCountCountsCompletedMoves ==
    /\ [](move_count = MovesAnswered - (IF LastMoveRaised THEN 1 ELSE 0))
    /\ [][move_count' = (IF MoveCompleted THEN move_count + 1 ELSE move_count)]_vars

\* after two completed moves a third move was answered without url_discover:
\* move_to raised and the counter stayed at 2
C22_Witness ==
    /\ move_count = 2
    /\ MovesAnswered = 3
    /\ LastMoveRaised
    /\ result.missing = "url_discover"

-----------------------------------------------------------------------------
(* Properties of the registration workflow. *)

\* the confirmation was sent after the application was created and a poll was
\* answered COMPLETED, less than 30 seconds after the creation
ConfirmedInTime ==
    confirmed_at # Never =>
        /\ created_at # Never /\ created_at <= confirmed_at
        /\ status = "COMPLETED"
        /\ completed_at # Never /\ completed_at <= confirmed_at
        /\ confirmed_at - created_at < confirm_limit

\* the timeout of wait_for_completion has elapsed and no poll had been answered
\* COMPLETED by then
TimeoutElapsed ==
    /\ wait_start_time # Never
    /\ clock - wait_start_time >= wait_timeout
    /\ completed_at = Never \/ completed_at - wait_start_time >= wait_timeout

\* C23: in main of niveau1, the confirmation request is sent only after
\* create_application succeeded and a poll of wait_for_completion was answered
\* COMPLETED, and less than 30 seconds after the application was created; and
\* once the polling timeout has elapsed without a COMPLETED status, no
\* confirmation request is ever sent and, unless a request fails, main ends with
\* the TimeoutError of wait_for_completion.
C23_ConfirmOnlyCompletedInTime ==
    /\ ConfirmedInTime
    /\ TimeoutElapsed =>
          /\ confirmed_at = Never
          /\ main_pc = "done" => raised \in {"TimeoutError", "HTTPError"}

====
